---- MODULE Spec2Model ----
(***************************************************************************)
(* Layout persistence with bounded version history (src/main.py).          *)
(*                                                                         *)
(* The store holds two collections, layouts and layout_versions.  Every    *)
(* request handler is a coroutine whose store calls (each `await`) are     *)
(* the atomic steps; the code between two awaits runs with the step that   *)
(* precedes it.  Requests of different processes interleave at the awaits. *)
(***************************************************************************)
EXTENDS Integers, Sequences, FiniteSets, TLC

(* ------------------------------ bounds -------------------------------- *)
MaxLayouts == 2
MaxVersions == 6
MaxVersionsWide == 2
MaxNewVersions == 2
MaxClock == 1

(* ------------------------- program constants -------------------------- *)
K == 4
MinLimit == 1
MaxLimit == 10
DefaultLimit == 4

Procs == {"p1", "p2"}

\* ids as the clients send them: 0 stands for a string ObjectId() rejects
LayoutIdStrs == 0 .. (MaxLayouts + 1)
VersionIdStrs == 0 .. MaxVersions
\* innerHTML values; "" violates min_length=1
Contents == {"a", "b"}
ContentInputs == Contents \cup {""}
\* Optional[Theme]; "None" is Python's None, "bogus" is outside the Literal
Themes == {"Indigo"}
ThemeInputs == Themes \cup {"None", "bogus"}
\* reason of an update: "absent" is a body without the field
ReasonInputs == {"absent", "", "ai_edit"}
LimitInputs == {0, 1, 4, 10, 11}
\* utc offset of the server's local time zone, in clock units
LocalUtcOffset == 1

VARIABLES
    layouts,      \* layouts_col: layout id -> document
    versions,     \* versions_col: set of snapshot documents
    clock,        \* the last value datetime.now() returned
    nextVid,      \* the id the store gives the next inserted version
    pc,           \* per request slot: the store call it is about to make
    req,          \* per request slot: the request being served
    current,      \* local `current` of update_layout / restore_version
    version,      \* local `version` of restore_version
    now,          \* local `now`
    oid,          \* local `oid` / `layout_oid` / `layout_id`
    snap_now,     \* local `now` of snapshot_previous
    old_ids,      \* local `old_ids` of snapshot_previous
    resp,         \* the response of the request, once done
    nstore,       \* number of store calls the request has made
    lastRestore,  \* history: the request completed last, if a successful restore
    h,            \* history of the request: what it found on arrival, what it wrote
    log,          \* history of each layout: its successful create/update/restore requests
    data,         \* local `data` of chat_endpoint: the parsed model response
    env           \* the environment of the run: its clients' requests and the model's bounds

vars == <<layouts, versions, clock, nextVid, pc, req, current, version,
          now, oid, snap_now, old_ids, resp, nstore, lastRestore, h, log, data, env>>

store == <<layouts, versions>>

(* ------------------------------ values -------------------------------- *)
None == [innerHTML |-> "", theme |-> "None"]
NoVersion == [id |-> 0, layoutId |-> 0, innerHTML |-> "", reason |-> "", createdAt |-> -1]
NoReq == [op |-> "none", layoutId |-> 0, versionId |-> 0, innerHTML |-> "",
          theme |-> "None", reason |-> "", limit |-> 0]
NoLayoutOut == [layoutId |-> 0, innerHTML |-> "", theme |-> "None", updatedAt |-> -1]
NoResp == [status |-> 0, detail |-> "", layout |-> NoLayoutOut, versions |-> <<>>]
NoOp == [op |-> "none", layoutId |-> 0, pre |-> "", vid |-> 0]
NoHist == [pre |-> None, held |-> "", vid |-> 0, pred |-> NoOp, fault |-> FALSE]
NoTheme == [kind |-> "absent", primaryColor |-> "None", spacing |-> "None", mode |-> "None"]
NoData == [text |-> "none", reason |-> "absent", changes |-> [kind |-> "absent", items |-> <<>>],
           theme |-> NoTheme, chars |-> 0]

Min(a, b) == IF a <= b THEN a ELSE b

(* --------------------------- pure helpers ----------------------------- *)
\* to_oid: ObjectId(id_str) raises on a malformed string (HTTP 400)
to_oid_ok(id_str) == id_str # 0
to_oid(id_str) == id_str

\* iso: dt.astimezone(utc).isoformat().  An aware datetime keeps its instant; a
\* naive one (what the store driver returns) is read as server-local time.
iso(dt, aware) == IF aware THEN dt ELSE dt - LocalUtcOffset

\* pydantic: CreateLayoutRequest / UpdateLayoutRequest field validation
ValidBody(innerHTML, theme) ==
    /\ innerHTML # ""
    /\ theme \in Themes \cup {"None"}

\* UpdateLayoutRequest.reason: Field(default="manual_update")
UpdateLayoutRequest_reason(reason) ==
    IF reason = "absent" THEN "manual_update" ELSE reason

\* mutant: the lower bound of limit is off by one
LimitRejectedLoose(limit) == limit < MinLimit - 1 \/ limit > MaxLimit

\* get_versions: limit < 1 or limit > 10
LimitRejected(limit) == limit < MinLimit \/ limit > MaxLimit

(* ---------------------------- store reads ----------------------------- *)
\* layouts_col.find_one({"_id": oid})
find_one_layout(l) == IF l \in DOMAIN layouts THEN layouts[l] ELSE None

\* mutant: the cursor is not filtered by layout
VersionsOfAnyLayout(l) == versions

\* versions_col.find({"layoutId": oid})
VersionsOf(l) == {v \in versions : v.layoutId = l}

\* mutant: the version is looked up by its id alone
find_one_version_any_layout(vid, l) ==
    IF \E v \in versions : v.id = vid
    THEN CHOOSE v \in versions : v.id = vid
    ELSE NoVersion

\* versions_col.find_one({"_id": version_oid, "layoutId": layout_oid})
find_one_version(vid, l) ==
    IF \E v \in versions : v.id = vid /\ v.layoutId = l
    THEN CHOOSE v \in versions : v.id = vid /\ v.layoutId = l
    ELSE NoVersion

\* mutant: the cursor sorts oldest first
SortBeforeAscending(a, b) == a.createdAt <= b.createdAt

\* .sort("createdAt", -1): a may be returned before b
SortBefore(a, b) == a.createdAt >= b.createdAt

\* the sets of documents a sorted cursor may return first, n of them (all when
\* fewer exist); documents with equal sort keys come in any order
Heads(S, n) ==
    {T \in SUBSET S :
        /\ Cardinality(T) = Min(n, Cardinality(S))
        /\ \A a \in T : \A b \in S \ T : SortBefore(a, b)}

\* mutant: the cursor skips one document too many
SkipIdsOffByOne(l, n) ==
    {{v.id : v \in VersionsOf(l) \ T} : T \in Heads(VersionsOf(l), n + 1)}

\* .sort("createdAt", -1).skip(4), projected on _id
SkipIds(l, n) == {{v.id : v \in VersionsOf(l) \ T} : T \in Heads(VersionsOf(l), n)}

\* the orders in which a sorted cursor may return the documents of T
RECURSIVE Orders(_)
Orders(T) ==
    IF T = {} THEN {<<>>}
    ELSE UNION {{<<a>> \o s : s \in Orders(T \ {a})} :
                   a \in {x \in T : \A y \in T : SortBefore(x, y)}}

\* .sort("createdAt", -1).limit(limit)
SortLimit(l, limit) == UNION {Orders(T) : T \in Heads(VersionsOf(l), limit)}

\* VersionOut built from a version document (innerHTML is projected away)
VersionOut(v) == [versionId |-> v.id, createdAt |-> iso(v.createdAt, FALSE), reason |-> v.reason]

LayoutOut(l, innerHTML, theme, updatedAt) ==
    [layoutId |-> l, innerHTML |-> innerHTML, theme |-> theme, updatedAt |-> iso(updatedAt, TRUE)]

Ok(out) == [NoResp EXCEPT !.status = 200, !.layout = out]
Error(status, detail) == [NoResp EXCEPT !.status = status, !.detail = detail]

\* datetime.now(timezone.utc): wall-clock time at the store's resolution, which
\* does not decrease and may repeat
NowValues == {t \in {clock, clock + 1} : t <= env.maxClock}

(* ------------------------------- Init --------------------------------- *)
\* the server starts on an empty store
EmptyStore ==
    /\ layouts = <<>>
    /\ versions = {}
    /\ clock = 0
    /\ nextVid = 1
    /\ log = [l \in LayoutIdStrs |-> <<>>]

\* no request is being served
InitState ==
    /\ pc = [p \in Procs |-> "idle"]
    /\ req = [p \in Procs |-> NoReq]
    /\ current = [p \in Procs |-> None]
    /\ version = [p \in Procs |-> NoVersion]
    /\ now = [p \in Procs |-> -1]
    /\ oid = [p \in Procs |-> 0]
    /\ snap_now = [p \in Procs |-> -1]
    /\ old_ids = [p \in Procs |-> {}]
    /\ resp = [p \in Procs |-> NoResp]
    /\ nstore = [p \in Procs |-> 0]
    /\ lastRestore = NoOp
    /\ h = [p \in Procs |-> NoHist]
    /\ data = [p \in Procs |-> NoData]

(* ------------------------- request bookkeeping ------------------------ *)
\* a request is accepted by an idle slot once pending responses are delivered
Accepting(p) == p \in env.slots /\ pc[p] = "idle" /\ \A q \in Procs : pc[q] # "done"

\* the model's bounds: room for the documents the requests in flight may insert
PreInsert == {"c_insert", "u_find", "r_find", "r_findv", "snap_insert"}
CanInsertVersion ==
    (nextVid - 1) + Cardinality({q \in Procs : pc[q] \in PreInsert}) < env.maxVersions
CanInsertLayout ==
    Cardinality(DOMAIN layouts) + Cardinality({q \in Procs : pc[q] = "c_insert"}) < env.maxLayouts

Arrive(p, r) ==
    /\ req' = [req EXCEPT ![p] = r]
    /\ h' = [h EXCEPT ![p] =
               [NoHist EXCEPT !.pre = find_one_layout(to_oid(r.layoutId)),
                              !.held = IF \E v \in versions : v.id = to_oid(r.versionId)
                                       THEN (CHOOSE v \in versions : v.id = to_oid(r.versionId)).innerHTML
                                       ELSE "",
                              !.pred = lastRestore]]

\* the handler returns or raises: the response is out
Respond(p, r) ==
    /\ pc' = [pc EXCEPT ![p] = "done"]
    /\ resp' = [resp EXCEPT ![p] = r]
    /\ lastRestore' =
         IF req[p].op = "restore" /\ r.status = 200
         THEN [op |-> "restore", layoutId |-> oid[p], pre |-> h[p].pre.innerHTML, vid |-> h[p].vid]
         ELSE NoOp
    /\ log' =
         IF req[p].op \in {"create", "update", "restore"} /\ r.status = 200
         THEN [log EXCEPT ![oid[p]] =
                 Append(@, [op |-> req[p].op, innerHTML |-> req[p].innerHTML, held |-> h[p].held])]
         ELSE log

\* a request rejected before its first store call
Reject(p, r) ==
    /\ pc' = [pc EXCEPT ![p] = "done"]
    /\ resp' = [resp EXCEPT ![p] = r]
    /\ lastRestore' = NoOp
    /\ UNCHANGED <<env, data, log, layouts, versions, clock, nextVid, current, version, now, oid,
                   snap_now, old_ids, nstore>>

Goto(p, label) == pc' = [pc EXCEPT ![p] = label]
StoreCall(p) == nstore' = [nstore EXCEPT ![p] = @ + 1]

\* the response is delivered and the slot is free again
Return(p) ==
    /\ pc[p] = "done"
    /\ pc' = [pc EXCEPT ![p] = "idle"]
    /\ req' = [req EXCEPT ![p] = NoReq]
    /\ current' = [current EXCEPT ![p] = None]
    /\ version' = [version EXCEPT ![p] = NoVersion]
    /\ now' = [now EXCEPT ![p] = -1]
    /\ oid' = [oid EXCEPT ![p] = 0]
    /\ snap_now' = [snap_now EXCEPT ![p] = -1]
    /\ old_ids' = [old_ids EXCEPT ![p] = {}]
    /\ resp' = [resp EXCEPT ![p] = NoResp]
    /\ nstore' = [nstore EXCEPT ![p] = 0]
    /\ h' = [h EXCEPT ![p] = NoHist]
    /\ data' = [data EXCEPT ![p] = NoData]
    /\ UNCHANGED <<env, log, layouts, versions, clock, nextVid, lastRestore>>

(* ------------------------ snapshot_previous --------------------------- *)
\* mutant: update and restore snapshot the content they are about to write
SnapshotContentNew(p) ==
    IF req[p].op = "restore" THEN version[p].innerHTML ELSE req[p].innerHTML

\* mutant: the snapshot holds the layout's content at the time of the insert
SnapshotContentFresh(p) ==
    IF req[p].op = "create" THEN req[p].innerHTML ELSE layouts[oid[p]].innerHTML

\* the arguments the three callers pass
SnapshotContent(p) ==
    IF req[p].op = "create" THEN req[p].innerHTML ELSE current[p].innerHTML

SnapshotReason(p) ==
    CASE req[p].op = "create" -> "initial_create"
      [] req[p].op = "update" -> IF req[p].reason # "" THEN req[p].reason ELSE "manual_update"
      [] OTHER -> "restore_snapshot"

\* entering snapshot_previous: now = datetime.now(timezone.utc)
CallSnapshot(p, t) ==
    /\ snap_now' = [snap_now EXCEPT ![p] = t]
    /\ Goto(p, "snap_insert")

\* versions_col.insert_one({...})
SnapInsert(p) ==
    /\ pc[p] = "snap_insert"
    /\ versions' = versions \cup
         {[id |-> nextVid, layoutId |-> oid[p], innerHTML |-> SnapshotContent(p),
           reason |-> SnapshotReason(p), createdAt |-> snap_now[p]]}
    /\ nextVid' = nextVid + 1
    /\ h' = [h EXCEPT ![p].vid = nextVid]
    /\ Goto(p, "snap_find")
    /\ StoreCall(p)
    /\ UNCHANGED <<env, data, log, layouts, clock, req, current, version, now, oid, snap_now,
                   old_ids, resp, lastRestore>>

\* what runs when snapshot_previous has returned, up to the caller's next await
AfterSnapshot(p) ==
    IF req[p].op = "create"
    THEN /\ Respond(p, Ok(LayoutOut(oid[p], req[p].innerHTML, req[p].theme, now[p])))
         /\ UNCHANGED <<clock, now>>
    ELSE /\ \E t \in NowValues :
              /\ now' = [now EXCEPT ![p] = t]
              /\ clock' = t
         /\ Goto(p, IF req[p].op = "update" THEN "u_write" ELSE "r_write")
         /\ UNCHANGED <<resp, lastRestore, log>>

\* the cursor find(...).sort("createdAt", -1).skip(4), read to its end
SnapFind(p) ==
    /\ pc[p] = "snap_find"
    /\ \E ids \in SkipIds(oid[p], K) :
         /\ old_ids' = [old_ids EXCEPT ![p] = ids]
         /\ IF ids # {}
            THEN /\ Goto(p, "snap_delete")
                 /\ UNCHANGED <<clock, now, resp, lastRestore, log>>
            ELSE AfterSnapshot(p)
    /\ StoreCall(p)
    /\ UNCHANGED <<env, data, layouts, versions, nextVid, req, current, version, oid, snap_now, h>>

\* versions_col.delete_many({"_id": {"$in": old_ids}})
SnapDelete(p) ==
    /\ pc[p] = "snap_delete"
    /\ versions' = {v \in versions : v.id \notin old_ids[p]}
    /\ AfterSnapshot(p)
    /\ StoreCall(p)
    /\ UNCHANGED <<env, data, layouts, nextVid, req, current, version, oid, snap_now, old_ids, h>>

\* versions_col.delete_many raises: nothing catches it in snapshot_previous or
\* in its callers, so the request ends with the server's 500 response
SnapDeleteFail(p) ==
    /\ pc[p] = "snap_delete"
    /\ Respond(p, Error(500, "Internal Server Error"))
    /\ h' = [h EXCEPT ![p].fault = TRUE]
    /\ StoreCall(p)
    /\ UNCHANGED <<env, data, layouts, versions, clock, nextVid, req, current, version, now, oid,
                   snap_now, old_ids>>

(* --------------------------- create_layout ---------------------------- *)
CreateStart(p, innerHTML, theme) ==
    /\ Accepting(p)
    /\ Arrive(p, [NoReq EXCEPT !.op = "create", !.innerHTML = innerHTML, !.theme = theme])
    /\ IF ~ValidBody(innerHTML, theme)
       THEN Reject(p, Error(422, "validation"))
       ELSE /\ CanInsertLayout
            /\ CanInsertVersion
            /\ \E t \in NowValues :
                 /\ now' = [now EXCEPT ![p] = t]
                 /\ clock' = t
            /\ Goto(p, "c_insert")
            /\ UNCHANGED <<env, data, log, layouts, versions, nextVid, current, version, oid, snap_now,
                           old_ids, resp, nstore, lastRestore>>

\* mutant: create returns without taking the initial snapshot
CreateInsertNoSnapshot(p) ==
    /\ pc[p] = "c_insert"
    /\ LET id == Cardinality(DOMAIN layouts) + 1 IN
         /\ layouts' = layouts @@ (id :> [innerHTML |-> req[p].innerHTML, theme |-> req[p].theme])
         /\ oid' = [oid EXCEPT ![p] = id]
         /\ pc' = [pc EXCEPT ![p] = "done"]
         /\ resp' = [resp EXCEPT ![p] =
                       Ok(LayoutOut(id, req[p].innerHTML, req[p].theme, now[p]))]
         /\ log' = [log EXCEPT ![id] =
                      Append(@, [op |-> "create", innerHTML |-> req[p].innerHTML, held |-> ""])]
    /\ lastRestore' = NoOp
    /\ StoreCall(p)
    /\ UNCHANGED <<env, data, versions, clock, nextVid, req, current, version, now, snap_now,
                   old_ids, h>>

\* layouts_col.insert_one(doc), then the call of snapshot_previous
CreateInsert(p) ==
    /\ pc[p] = "c_insert"
    /\ LET id == Cardinality(DOMAIN layouts) + 1 IN
         /\ layouts' = layouts @@ (id :> [innerHTML |-> req[p].innerHTML, theme |-> req[p].theme])
         /\ oid' = [oid EXCEPT ![p] = id]
    /\ \E t \in NowValues :
         /\ CallSnapshot(p, t)
         /\ clock' = t
    /\ StoreCall(p)
    /\ UNCHANGED <<env, data, log, versions, nextVid, req, current, version, now, old_ids, resp,
                   lastRestore, h>>

(* --------------------------- update_layout ---------------------------- *)
UpdateStart(p, layoutId, innerHTML, reason, theme) ==
    /\ Accepting(p)
    /\ Arrive(p, [NoReq EXCEPT !.op = "update", !.layoutId = layoutId, !.innerHTML = innerHTML,
                               !.reason = UpdateLayoutRequest_reason(reason), !.theme = theme])
    /\ IF ~ValidBody(innerHTML, theme)
       THEN Reject(p, Error(422, "validation"))
       ELSE IF ~to_oid_ok(layoutId)
       THEN Reject(p, Error(400, "Invalid layoutId"))
       ELSE /\ CanInsertVersion
            /\ oid' = [oid EXCEPT ![p] = to_oid(layoutId)]
            /\ Goto(p, "u_find")
            /\ UNCHANGED <<env, data, log, layouts, versions, clock, nextVid, current, version, now,
                           snap_now, old_ids, resp, nstore, lastRestore>>

\* mutant: update goes on to its snapshot without looking at what it found
UpdateFindNoCheck(p) ==
    /\ pc[p] = "u_find"
    /\ current' = [current EXCEPT ![p] = find_one_layout(oid[p])]
    /\ \E t \in NowValues :
         /\ CallSnapshot(p, t)
         /\ clock' = t
    /\ StoreCall(p)
    /\ UNCHANGED <<env, data, layouts, versions, nextVid, req, version, now, oid, old_ids, h,
                   resp, lastRestore, log>>

\* current = layouts_col.find_one({"_id": oid}); 404 or the call of snapshot_previous
UpdateFind(p) ==
    /\ pc[p] = "u_find"
    /\ LET doc == find_one_layout(oid[p]) IN
         /\ current' = [current EXCEPT ![p] = doc]
         /\ IF doc = None
            THEN /\ Respond(p, Error(404, "Layout not found"))
                 /\ UNCHANGED <<clock, snap_now>>
            ELSE /\ \E t \in NowValues :
                      /\ CallSnapshot(p, t)
                      /\ clock' = t
                 /\ UNCHANGED <<resp, lastRestore, log>>
    /\ StoreCall(p)
    /\ UNCHANGED <<env, data, layouts, versions, nextVid, req, version, now, oid, old_ids, h>>

\* mutant: the overwrite is dropped when the layout no longer holds what was read
UpdateWriteIfUnchanged(p) ==
    /\ pc[p] = "u_write"
    /\ layouts' = IF layouts[oid[p]].innerHTML = current[p].innerHTML
                  THEN [layouts EXCEPT ![oid[p]] =
                          [@ EXCEPT !.innerHTML = req[p].innerHTML,
                                    !.theme = IF req[p].theme # "None" THEN req[p].theme ELSE @]]
                  ELSE layouts
    /\ Respond(p, Ok(LayoutOut(req[p].layoutId, req[p].innerHTML,
                               IF req[p].theme # "None" THEN req[p].theme ELSE current[p].theme,
                               now[p])))
    /\ StoreCall(p)
    /\ UNCHANGED <<env, data, versions, clock, nextVid, req, current, version, now, oid, snap_now,
                   old_ids, h>>

\* layouts_col.update_one({"_id": oid}, {"$set": update_doc}) and the return
UpdateWrite(p) ==
    /\ pc[p] = "u_write"
    /\ layouts' = [layouts EXCEPT ![oid[p]] =
                     [@ EXCEPT !.innerHTML = req[p].innerHTML,
                               !.theme = IF req[p].theme # "None" THEN req[p].theme ELSE @]]
    /\ Respond(p, Ok(LayoutOut(req[p].layoutId, req[p].innerHTML,
                               IF req[p].theme # "None" THEN req[p].theme ELSE current[p].theme,
                               now[p])))
    /\ StoreCall(p)
    /\ UNCHANGED <<env, data, versions, clock, nextVid, req, current, version, now, oid, snap_now,
                   old_ids, h>>

(* ---------------------------- get_versions ---------------------------- *)
VersionsStart(p, layoutId, limit) ==
    /\ Accepting(p)
    /\ Arrive(p, [NoReq EXCEPT !.op = "versions", !.layoutId = layoutId, !.limit = limit])
    /\ IF LimitRejected(limit)
       THEN Reject(p, Error(400, "limit must be 1..10"))
       ELSE IF ~to_oid_ok(layoutId)
       THEN Reject(p, Error(400, "Invalid layoutId"))
       ELSE /\ oid' = [oid EXCEPT ![p] = to_oid(layoutId)]
            /\ Goto(p, "v_find")
            /\ UNCHANGED <<env, data, log, layouts, versions, clock, nextVid, current, version, now,
                           snap_now, old_ids, resp, nstore, lastRestore>>

\* exists = layouts_col.find_one({"_id": oid}, {"_id": 1})
VersionsFind(p) ==
    /\ pc[p] = "v_find"
    /\ IF find_one_layout(oid[p]) = None
       THEN Respond(p, Error(404, "Layout not found"))
       ELSE Goto(p, "v_list") /\ UNCHANGED <<resp, lastRestore, log>>
    /\ StoreCall(p)
    /\ UNCHANGED <<env, data, layouts, versions, clock, nextVid, req, current, version, now, oid,
                   snap_now, old_ids, h>>

\* the cursor find(...).sort("createdAt", -1).limit(limit), read into `out`
VersionsList(p) ==
    /\ pc[p] = "v_list"
    /\ \E docs \in SortLimit(oid[p], req[p].limit) :
         Respond(p, [NoResp EXCEPT !.status = 200,
                                   !.versions = [i \in 1 .. Len(docs) |-> VersionOut(docs[i])]])
    /\ StoreCall(p)
    /\ UNCHANGED <<env, data, layouts, versions, clock, nextVid, req, current, version, now, oid,
                   snap_now, old_ids, h>>

(* --------------------------- restore_version -------------------------- *)
RestoreStart(p, layoutId, versionId) ==
    /\ Accepting(p)
    /\ Arrive(p, [NoReq EXCEPT !.op = "restore", !.layoutId = layoutId, !.versionId = versionId])
    /\ IF ~to_oid_ok(layoutId) \/ ~to_oid_ok(versionId)
       THEN Reject(p, Error(400, "Invalid layoutId"))
       ELSE /\ CanInsertVersion
            /\ oid' = [oid EXCEPT ![p] = to_oid(layoutId)]
            /\ Goto(p, "r_find")
            /\ UNCHANGED <<env, data, log, layouts, versions, clock, nextVid, current, version, now,
                           snap_now, old_ids, resp, nstore, lastRestore>>

\* current = layouts_col.find_one({"_id": layout_oid})
RestoreFind(p) ==
    /\ pc[p] = "r_find"
    /\ LET doc == find_one_layout(oid[p]) IN
         /\ current' = [current EXCEPT ![p] = doc]
         /\ IF doc = None
            THEN Respond(p, Error(404, "Layout not found"))
            ELSE Goto(p, "r_findv") /\ UNCHANGED <<resp, lastRestore, log>>
    /\ StoreCall(p)
    /\ UNCHANGED <<env, data, layouts, versions, clock, nextVid, req, version, now, oid, snap_now,
                   old_ids, h>>

\* version = versions_col.find_one({"_id": version_oid, "layoutId": layout_oid});
\* 404 or the call of snapshot_previous
RestoreFindVersion(p) ==
    /\ pc[p] = "r_findv"
    /\ LET doc == find_one_version(to_oid(req[p].versionId), oid[p]) IN
         /\ version' = [version EXCEPT ![p] = doc]
         /\ IF doc = NoVersion
            THEN /\ Respond(p, Error(404, "Version not found for this layout"))
                 /\ UNCHANGED <<clock, snap_now>>
            ELSE /\ \E t \in NowValues :
                      /\ CallSnapshot(p, t)
                      /\ clock' = t
                 /\ UNCHANGED <<resp, lastRestore, log>>
    /\ StoreCall(p)
    /\ UNCHANGED <<env, data, layouts, versions, nextVid, req, current, now, oid, old_ids, h>>

\* mutant: restore writes back the content it has just read
RestoredContentCurrent(p) == current[p].innerHTML

\* version["innerHTML"]: the content restore writes
RestoredContent(p) == version[p].innerHTML

\* mutant: restore replaces the layout document instead of setting its content
RestoreWriteReplace(p) ==
    /\ pc[p] = "r_write"
    /\ layouts' = [layouts EXCEPT ![oid[p]] = [innerHTML |-> RestoredContent(p), theme |-> "None"]]
    /\ Respond(p, Ok(LayoutOut(req[p].layoutId, RestoredContent(p), current[p].theme, now[p])))
    /\ StoreCall(p)
    /\ UNCHANGED <<env, data, versions, clock, nextVid, req, current, version, now, oid, snap_now,
                   old_ids, h>>

\* mutant: restore consumes the version it restores
RestoreWriteConsume(p) ==
    /\ pc[p] = "r_write"
    /\ layouts' = [layouts EXCEPT ![oid[p]] =
                     [@ EXCEPT !.innerHTML = RestoredContent(p)]]
    /\ versions' = {v \in versions : v.id # version[p].id}
    /\ Respond(p, Ok(LayoutOut(req[p].layoutId, RestoredContent(p), current[p].theme, now[p])))
    /\ StoreCall(p)
    /\ UNCHANGED <<env, data, clock, nextVid, req, current, version, now, oid, snap_now,
                   old_ids, h>>

\* layouts_col.update_one({"_id": layout_oid}, {"$set": {innerHTML, updatedAt}}) and the return
RestoreWrite(p) ==
    /\ pc[p] = "r_write"
    /\ layouts' = [layouts EXCEPT ![oid[p]] =
                     [@ EXCEPT !.innerHTML = RestoredContent(p)]]
    /\ Respond(p, Ok(LayoutOut(req[p].layoutId, RestoredContent(p), current[p].theme, now[p])))
    /\ StoreCall(p)
    /\ UNCHANGED <<env, data, versions, clock, nextVid, req, current, version, now, oid, snap_now,
                   old_ids, h>>

(* ---------------------------- chat_endpoint --------------------------- *)
\* What the model may answer.  text: "raises" (generate_content fails),
\* "no_braces" (no {...} span in the text), "bad_json" (json.loads fails) or
\* "object" (the span parses, to a JSON object).  Of an object: reason is
\* "absent", "str" or "nonstr"; changes is absent, not a list, or a list of
\* actions; an action is an object with a type ("None": no type key) or not an
\* object; theme is absent, null, not an object, or an object whose three
\* sub-fields are "None" when missing; chars is the length of the changes
\* payload in characters.
MaxChanges == 2

ActionTypes == {"move", "remove", "toggle_visibility", "update_props", "update_theme",
                "add", "bogus", "None"}
Actions == {[kind |-> "nonobject", type |-> "None"]} \cup
           {[kind |-> "object", type |-> t] : t \in ActionTypes}
RECURSIVE SeqsUpTo(_, _)
SeqsUpTo(S, n) ==
    IF n = 0 THEN {<<>>}
    ELSE SeqsUpTo(S, n - 1) \cup {Append(s, x) : s \in {q \in SeqsUpTo(S, n - 1) : Len(q) = n - 1}, x \in S}
ChangesValues ==
    {[kind |-> "absent", items |-> <<>>], [kind |-> "nonlist", items |-> <<>>]} \cup
    {[kind |-> "list", items |-> s] : s \in SeqsUpTo(Actions, MaxChanges)}
ThemeValues ==
    {NoTheme, [NoTheme EXCEPT !.kind = "null"], [NoTheme EXCEPT !.kind = "nonobject"]} \cup
    {[kind |-> "object", primaryColor |-> c, spacing |-> sp, mode |-> m] :
        c \in {"indigo", "magenta", "None"}, sp \in {"compact", "wide", "None"},
        m \in {"light", "neon", "None"}}
CharsValues == {2, 1000000, 1000001}
ModelResponses ==
    {[NoData EXCEPT !.text = t] : t \in {"raises", "no_braces", "bad_json"}} \cup
    {[text |-> "object", reason |-> r, changes |-> c, theme |-> t, chars |-> n] :
        r \in {"absent", "str", "nonstr"}, c \in ChangesValues, t \in ThemeValues,
        n \in CharsValues}

allowed_types == {"move", "remove", "add", "update_props", "toggle_visibility", "update_theme"}

\* the loop over data["changes"]: the error of the first action it rejects
RECURSIVE CheckChanges(_, _)
CheckChanges(items, i) ==
    IF i > Len(items) THEN NoResp
    ELSE IF items[i].kind # "object" THEN Error(500, "Each change must be an object")
    ELSE IF items[i].type \notin allowed_types
         THEN Error(500, "Invalid change type: " \o items[i].type)
    ELSE CheckChanges(items, i + 1)

\* the checks on data["theme"], made when the key is there and not None
CheckTheme(theme) ==
    IF theme.kind \in {"absent", "null"} THEN NoResp
    ELSE IF theme.kind # "object" THEN Error(500, "Field 'theme' must be an object")
    ELSE IF theme.primaryColor \notin {"indigo", "emerald", "rose", "amber", "cyan", "violet"}
         THEN Error(400, "Invalid theme.primaryColor")
    ELSE IF theme.spacing \notin {"compact", "comfortable"}
         THEN Error(400, "Invalid theme.spacing")
    ELSE IF theme.mode \notin {"light", "dark"}
         THEN Error(400, "Invalid theme.mode")
    ELSE NoResp

\* the response validator: the part of chat_endpoint after the model's answer
Validate(r) ==
    IF r.text = "raises" THEN Error(500, "str(e)")
    ELSE IF r.text = "no_braces" THEN Error(500, "Gemini did not return JSON")
    ELSE IF r.text = "bad_json" THEN Error(500, "Gemini returned invalid JSON")
    ELSE IF r.reason = "absent" \/ r.changes.kind = "absent"
         THEN Error(500, "Missing required fields in Gemini response")
    ELSE IF r.reason # "str" THEN Error(500, "Field 'reason' must be a string")
    ELSE IF r.changes.kind # "list" THEN Error(500, "Field 'changes' must be an array")
    ELSE IF CheckChanges(r.changes.items, 1) # NoResp THEN CheckChanges(r.changes.items, 1)
    ELSE IF CheckTheme(r.theme) # NoResp THEN CheckTheme(r.theme)
    ELSE [NoResp EXCEPT !.status = 200]

\* POST /chat: the handler has no await, it runs from the request to the response
chat_endpoint(p, bodyOk, r) ==
    /\ Accepting(p)
    /\ Arrive(p, [NoReq EXCEPT !.op = "chat"])
    /\ pc' = [pc EXCEPT ![p] = "done"]
    /\ lastRestore' = NoOp
    /\ IF ~bodyOk
       THEN /\ resp' = [resp EXCEPT ![p] = Error(422, "validation")]
            /\ UNCHANGED data
       ELSE IF ~env.apiKey
       THEN /\ resp' = [resp EXCEPT ![p] = Error(500, "Gemini API key not found")]
            /\ UNCHANGED data
       ELSE /\ resp' = [resp EXCEPT ![p] = Validate(r)]
            /\ data' = [data EXCEPT ![p] =
                          IF r.text = "object" THEN r ELSE [NoData EXCEPT !.text = r.text]]
    /\ UNCHANGED <<env, log, layouts, versions, clock, nextVid, current, version, now, oid,
                   snap_now, old_ids, nstore>>

(* --------------------------- specifications --------------------------- *)
\* one step of the request served by slot p
Step(p) ==
    \/ \E c \in env.contents, t \in env.themes : CreateStart(p, c, t)
    \/ CreateInsert(p)
    \/ \E l \in env.layoutIds, c \in env.contents, r \in env.reasons, t \in env.themes :
         UpdateStart(p, l, c, r, t)
    \/ UpdateFind(p)
    \/ UpdateWrite(p)
    \/ \E l \in env.layoutIds, n \in env.limits : VersionsStart(p, l, n)
    \/ VersionsFind(p)
    \/ VersionsList(p)
    \/ \E l \in env.layoutIds, v \in env.versionIds : RestoreStart(p, l, v)
    \/ RestoreFind(p)
    \/ RestoreFindVersion(p)
    \/ RestoreWrite(p)
    \/ SnapInsert(p)
    \/ SnapFind(p)
    \/ SnapDelete(p)
    \/ Return(p)

\* requests interleave at their store calls
Next == \E p \in Procs : Step(p)

\* requests executed one at a time, histories long enough to prune
EnvSeq ==
    [slots |-> {"p1"}, contents |-> {"a"}, themes |-> {"None"},
     reasons |-> {"absent"}, layoutIds |-> 1 .. MaxLayouts, versionIds |-> 1 .. MaxVersions,
     limits |-> LimitInputs, maxLayouts |-> MaxLayouts, maxVersions |-> MaxVersions,
     maxClock |-> MaxClock]

InitSeq == EmptyStore /\ InitState /\ env = EnvSeq
SpecSeq == InitSeq /\ [][Next]_vars

\* The store outlives the server process.  These are the documents left by
\* create(a), create(a) and three updates of the first layout to a, made one at
\* a time (SpecSeq reaches this store: StoredReachable): the first layout
\* holds K versions, the second its initial one.
StoredLayouts ==
    (1 :> [innerHTML |-> "a", theme |-> "None"]) @@ (2 :> [innerHTML |-> "a", theme |-> "None"])

StoredVersions ==
    {[id |-> 1, layoutId |-> 1, innerHTML |-> "a", reason |-> "initial_create", createdAt |-> 0],
     [id |-> 2, layoutId |-> 2, innerHTML |-> "a", reason |-> "initial_create", createdAt |-> 0],
     [id |-> 3, layoutId |-> 1, innerHTML |-> "a", reason |-> "manual_update", createdAt |-> 0],
     [id |-> 4, layoutId |-> 1, innerHTML |-> "a", reason |-> "manual_update", createdAt |-> 1],
     [id |-> 5, layoutId |-> 1, innerHTML |-> "a", reason |-> "manual_update", createdAt |-> 1]}

StoredLog ==
    LET create == [op |-> "create", innerHTML |-> "a", held |-> ""]
        update == [op |-> "update", innerHTML |-> "a", held |-> ""]
    IN  [l \in LayoutIdStrs |->
            CASE l = 1 -> <<create, update, update, update>>
              [] l = 2 -> <<create>>
              [] OTHER -> <<>>]

PopulatedStore ==
    /\ layouts = StoredLayouts
    /\ versions = StoredVersions
    /\ clock = 1
    /\ nextVid = 6
    /\ log = StoredLog

StoredReachable ==
    layouts = StoredLayouts /\ versions = StoredVersions /\ clock = 1 /\ nextVid = 6 /\ log = StoredLog

\* every kind of request, well-formed and malformed, one at a time on the
\* populated store
EnvWide ==
    [slots |-> {"p1"}, contents |-> ContentInputs, themes |-> ThemeInputs,
     reasons |-> ReasonInputs, layoutIds |-> LayoutIdStrs,
     versionIds |-> 0 .. (5 + MaxVersionsWide),
     limits |-> LimitInputs, maxLayouts |-> MaxLayouts + 1, maxVersions |-> 5 + MaxVersionsWide,
     maxClock |-> 1 + MaxClock]

InitWide == PopulatedStore /\ InitState /\ env = EnvWide
SpecWide == InitWide /\ [][Next]_vars

\* two requests at a time on the populated store
EnvConc ==
    [slots |-> Procs, contents |-> Contents, themes |-> {"None", "Indigo"},
     reasons |-> {"absent"}, layoutIds |-> 1 .. (MaxLayouts + 1), versionIds |-> {1, 2, 4},
     limits |-> {1}, maxLayouts |-> MaxLayouts + 1, maxVersions |-> 5 + MaxNewVersions,
     maxClock |-> 1 + MaxClock]

Init == PopulatedStore /\ InitState /\ env = EnvConc
Spec == Init /\ [][Next]_vars

\* one request at a time on the populated store, the store's delete may fail
EnvFault ==
    [slots |-> {"p1"}, contents |-> Contents, themes |-> {"None"},
     reasons |-> {"absent"}, layoutIds |-> 1 .. MaxLayouts, versionIds |-> {1, 2},
     limits |-> {DefaultLimit}, maxLayouts |-> MaxLayouts + 1, maxVersions |-> 5 + MaxNewVersions,
     maxClock |-> 1 + MaxClock]

NextFault == Next \/ \E p \in Procs : SnapDeleteFail(p)

InitFault == PopulatedStore /\ InitState /\ env = EnvFault
SpecFault == InitFault /\ [][NextFault]_vars

\* chat requests one at a time, the model answering anything; the API key is
\* configured or not
EnvChat ==
    [slots |-> {"p1"}, contents |-> {"a"}, themes |-> {"None"},
     reasons |-> {"absent"}, layoutIds |-> 1 .. MaxLayouts, versionIds |-> {1},
     limits |-> {DefaultLimit}, maxLayouts |-> MaxLayouts, maxVersions |-> MaxVersions,
     maxClock |-> MaxClock, apiKey |-> TRUE]

ChatStep(p) ==
    \/ /\ Accepting(p)
       /\ \E bodyOk \in BOOLEAN, r \in ModelResponses : chat_endpoint(p, bodyOk, r)
    \/ Return(p)

NextChat == \E p \in Procs : ChatStep(p)

InitChat == EmptyStore /\ InitState /\ env \in {EnvChat, [EnvChat EXCEPT !.apiKey = FALSE]}
SpecChat == InitChat /\ [][NextChat]_vars

(* ------------------------------ claims -------------------------------- *)
InFlight(p) == pc[p] \notin {"idle", "done"}
InSnapshot(p) == pc[p] \in {"snap_insert", "snap_find", "snap_delete"}
Retained(l) == Cardinality(VersionsOf(l))
\* the number of successful update/restore requests on layout l
NMut(l) == Len(log[l]) - 1
Succeeded(p, op) == pc[p] = "done" /\ req[p].op = op /\ resp[p].status = 200

\* C1: whenever no snapshot_previous call is in progress, every layout has
\* at most K retained versions, also when requests on the same layout
\* interleave at their store calls.
C1_AtMostK ==
    (\A p \in Procs : ~InSnapshot(p)) => \A l \in DOMAIN layouts : Retained(l) <= K

\* two updates of the same layout have completed whose prune lists overlap:
\* both inserted their snapshot before either deleted
C1_Witness ==
    /\ \A p \in Procs : Succeeded(p, "update") /\ oid[p] = 1
    /\ old_ids["p1"] \cap old_ids["p2"] # {}
    /\ Retained(1) = K

\* C2: with requests executed one at a time, a layout made by create that has
\* seen N successful update/restore requests retains exactly min(N + 1, K)
\* versions.
C2_RetainedCount ==
    (\A p \in Procs : ~InFlight(p)) =>
        \A l \in DOMAIN layouts : Retained(l) = Min(NMut(l) + 1, K)

\* a layout after five updates or restores: K versions are retained, two were pruned
C2_Witness ==
    /\ \A p \in Procs : ~InFlight(p)
    /\ \E l \in DOMAIN layouts : NMut(l) = 5 /\ Retained(l) = K

\* C3: create(content C), then update(content C2), then restore of the
\* version of that layout holding C, leaves the layout's stored content = C.
C3_RoundTrip ==
    \A l \in DOMAIN layouts :
        (/\ \A p \in Procs : ~InFlight(p)
         /\ Len(log[l]) = 3
         /\ log[l][1].op = "create" /\ log[l][2].op = "update" /\ log[l][3].op = "restore"
         /\ log[l][3].held = log[l][1].innerHTML)
        => layouts[l].innerHTML = log[l][1].innerHTML

\* the round trip with C2 different from C, the restore just answered
C3_Witness ==
    \E l \in DOMAIN layouts :
        /\ Succeeded("p1", "restore") /\ oid["p1"] = l
        /\ Len(log[l]) = 3
        /\ log[l][1].op = "create" /\ log[l][2].op = "update" /\ log[l][3].op = "restore"
        /\ log[l][2].innerHTML # log[l][1].innerHTML
        /\ log[l][3].held = log[l][1].innerHTML

\* C4: a version listing that immediately follows a successful restore of the
\* same layout contains the entry the restore created, with reason
\* "restore_snapshot", and that version stores the layout's content as it was
\* before the restore.
C4_RestoreListed ==
    \A p \in Procs :
        (Succeeded(p, "versions") /\ h[p].pred.op = "restore" /\ h[p].pred.layoutId = oid[p])
        => /\ \E i \in 1 .. Len(resp[p].versions) :
                /\ resp[p].versions[i].versionId = h[p].pred.vid
                /\ resp[p].versions[i].reason = "restore_snapshot"
           /\ \E v \in versions : v.id = h[p].pred.vid /\ v.innerHTML = h[p].pred.pre

\* C5: a restore whose versionId exists but belongs to another layout than the
\* one in the path answers 404 and none of its steps changes a layout or a
\* version.
CrossLayout(p) ==
    /\ req[p].op = "restore"
    /\ \E v \in versions : v.id = to_oid(req[p].versionId) /\ v.layoutId # oid[p]

C5_CrossLayoutRestore ==
    [][\A p \in Procs :
          (CrossLayout(p) /\ pc[p] \in {"r_find", "r_findv"} /\ pc'[p] # pc[p])
          => /\ layouts' = layouts /\ versions' = versions
             /\ pc[p] = "r_findv" => (pc'[p] = "done" /\ resp'[p].status = 404)]_vars

\* the restore of a layout that exists, naming a version of another layout, answered
C5_Witness ==
    \E p \in Procs :
        /\ pc[p] = "done" /\ CrossLayout(p)
        /\ oid[p] \in DOMAIN layouts
        /\ resp[p].status = 404 /\ resp[p].detail = "Version not found for this layout"

\* C6: when deleting the excess snapshots fails during the snapshot step of
\* an update or restore, the request still overwrites the layout's content
\* and reports success.
C6_PruneFailureSuppressed ==
    \A p \in Procs :
        (pc[p] = "done" /\ req[p].op \in {"update", "restore"} /\ h[p].fault)
        => /\ resp[p].status = 200
           /\ layouts[oid[p]].innerHTML =
                IF req[p].op = "update" THEN req[p].innerHTML ELSE version[p].innerHTML

\* C7: a version listing returns its entries newest first: no entry is older
\* than the entry listed after it.
C7_NewestFirst ==
    \A p \in Procs :
        Succeeded(p, "versions") =>
            \A i \in 1 .. Len(resp[p].versions) - 1 :
                resp[p].versions[i].createdAt >= resp[p].versions[i + 1].createdAt

\* a listing of K entries whose first is newer than its last
C7_Witness ==
    \E p \in Procs :
        /\ Succeeded(p, "versions")
        /\ Len(resp[p].versions) = K
        /\ resp[p].versions[1].createdAt > resp[p].versions[K].createdAt

\* C8: a listing with limit outside 1..10 is answered 400 without a store
\* call; with limit in 1..10 on an existing layout it returns exactly
\* min(limit, number of versions stored for the layout) entries.
C8_Limit ==
    \A p \in Procs :
        (pc[p] = "done" /\ req[p].op = "versions") =>
            /\ (req[p].limit < 1 \/ req[p].limit > 10)
                 => (resp[p].status = 400 /\ nstore[p] = 0)
            /\ (req[p].limit \in 1 .. 10 /\ oid[p] \in DOMAIN layouts)
                 => /\ resp[p].status = 200
                    /\ Len(resp[p].versions) = Min(req[p].limit, Retained(oid[p]))

\* limit = 4 on a layout with two stored versions returns two entries
C8_Witness ==
    \E p \in Procs :
        /\ Succeeded(p, "versions")
        /\ req[p].limit = 4 /\ Retained(oid[p]) = 2 /\ Len(resp[p].versions) = 2

\* C9: an update of a layout id that is not in the store answers 404 and
\* changes no layout and no version.
C9_UpdateMissing ==
    [][\A p \in Procs :
          (req[p].op = "update" /\ pc[p] = "u_find" /\ pc'[p] # pc[p]
             /\ oid[p] \notin DOMAIN layouts)
          => /\ pc'[p] = "done" /\ resp'[p].status = 404
             /\ layouts' = layouts /\ versions' = versions]_vars

\* the update of a layout id that is not in the store, answered
C9_Witness ==
    \E p \in Procs :
        /\ pc[p] = "done" /\ req[p].op = "update"
        /\ oid[p] # 0 /\ oid[p] \notin DOMAIN layouts
        /\ resp[p].status = 404 /\ nstore[p] = 1

\* C10: after a successful restore the layout's stored theme is what it was
\* before the restore.
C10_ThemeKept ==
    \A p \in Procs :
        Succeeded(p, "restore") => layouts[oid[p]].theme = h[p].pre.theme

\* a restore that changed the content of a layout with a theme
C10_Witness ==
    \E p \in Procs :
        /\ Succeeded(p, "restore")
        /\ h[p].pre.theme = "Indigo"
        /\ layouts[oid[p]].innerHTML # h[p].pre.innerHTML

(* the response validator *)
\* a chat request answered after the model's text was parsed to an object
Validated(p) == pc[p] = "done" /\ req[p].op = "chat" /\ data[p].text = "object"
\* reason and changes are there and have their types
WellTyped(p) == data[p].reason = "str" /\ data[p].changes.kind = "list"
PermittedKinds == {"move", "remove", "toggle_visibility", "update_props", "update_theme"}
PermittedAction(a) == a.kind = "object" /\ a.type \in PermittedKinds

\* C11: the validator accepts a model response only if every element of
\* changes is an object whose type is one of the five permitted kinds; a
\* response whose first offending element is an object of another type is
\* rejected with an error naming that type.
C11_OnlyPermittedKinds ==
    \A p \in Procs :
        Validated(p) =>
            LET items == data[p].changes.items IN
            /\ resp[p].status = 200 => \A i \in 1 .. Len(items) : PermittedAction(items[i])
            /\ \A i \in 1 .. Len(items) :
                 (/\ WellTyped(p)
                  /\ \A j \in 1 .. i - 1 : PermittedAction(items[j])
                  /\ items[i].kind = "object" /\ items[i].type \notin PermittedKinds)
                 => /\ resp[p].status # 200
                    /\ resp[p].detail = "Invalid change type: " \o items[i].type

\* the top-level keys an error detail of chat_endpoint names
KeysNamed(detail) ==
    CASE detail = "Field 'reason' must be a string" -> {"reason"}
      [] detail = "Field 'changes' must be an array" -> {"changes"}
      [] detail = "Field 'theme' must be an object" -> {"theme"}
      [] OTHER -> {}

\* C12: a parsed model response that lacks reason, or lacks changes, is
\* rejected with an error that names the missing key.
C12_MissingKeyNamed ==
    \A p \in Procs :
        Validated(p) =>
            /\ data[p].reason = "absent"
                 => (resp[p].status # 200 /\ "reason" \in KeysNamed(resp[p].detail))
            /\ (data[p].reason # "absent" /\ data[p].changes.kind = "absent")
                 => (resp[p].status # 200 /\ "changes" \in KeysNamed(resp[p].detail))

\* the theme is there and is not an object with its three sub-fields in range
ThemeMalformed(t) ==
    /\ t.kind # "absent"
    /\ ~(/\ t.kind = "object"
         /\ t.primaryColor \in {"indigo", "emerald", "rose", "amber", "cyan", "violet"}
         /\ t.spacing \in {"compact", "comfortable"}
         /\ t.mode \in {"light", "dark"})
\* the error the validator gives for a theme sub-field outside its enumeration
InvalidTheme(r) ==
    /\ r.status = 400
    /\ r.detail \in {"Invalid theme.primaryColor", "Invalid theme.spacing", "Invalid theme.mode"}
\* the response passes every check that comes before the theme's
ReachesTheme(p) ==
    /\ Validated(p) /\ WellTyped(p)
    /\ \A i \in 1 .. Len(data[p].changes.items) : PermittedAction(data[p].changes.items[i])

\* C13: of the responses that pass the checks before the theme's, one without
\* a theme field is accepted and one whose theme is present but malformed is
\* rejected, always with the one error kind InvalidTheme.
C13_ThemeOptional ==
    \A p \in Procs :
        ReachesTheme(p) =>
            /\ data[p].theme.kind = "absent" => resp[p].status = 200
            /\ ThemeMalformed(data[p].theme) => InvalidTheme(resp[p])

\* C14: no model response whose changes payload is longer than 1,000,000
\* characters is returned as a validated result.
C14_PayloadTooLarge ==
    \A p \in Procs :
        (Validated(p) /\ data[p].chars > 1000000) => resp[p].status # 200

(* concurrent updates *)
\* both slots hold a completed, successful update of layout l
BothUpdated(l) ==
    \A p \in Procs : Succeeded(p, "update") /\ oid[p] = l

\* C15: once two updates of the same layout have both completed, however
\* their store steps interleaved, the layout's stored content is the content
\* of the update whose overwrite ran last, one of the two requested contents.
C15_LastWriterWins ==
    \A l \in DOMAIN layouts :
        BothUpdated(l) =>
            LET n == Len(log[l]) IN
            /\ layouts[l].innerHTML = log[l][n].innerHTML
            /\ \E p, q \in Procs :
                 /\ p # q
                 /\ log[l][n].innerHTML = req[p].innerHTML
                 /\ log[l][n - 1].innerHTML = req[q].innerHTML

\* p2 read the layout before p1's overwrite and overwrote after it: the
\* layout holds p2's content, p1's is gone
C15_Witness ==
    /\ BothUpdated(1)
    /\ req["p1"].innerHTML = "b" /\ req["p2"].innerHTML = "a"
    /\ current["p2"].innerHTML = "a"
    /\ log[1][Len(log[1]) - 1].innerHTML = "b"
    /\ layouts[1].innerHTML = "a"

(* the snapshot manager *)
\* w was created after v: by creation time, then by insertion order
Newer(w, v) == w.createdAt > v.createdAt \/ (w.createdAt = v.createdAt /\ w.id > v.id)
NewestK(S) == {v \in S : Cardinality({w \in S : Newer(w, v)}) < K}
LeavesSnapshot(p) ==
    pc[p] \in {"snap_find", "snap_delete"} /\ pc'[p] \notin {"snap_find", "snap_delete"}

\* C16: with requests executed one at a time, a snapshot call that completes
\* leaves for its layout exactly the K most recently created versions (all
\* when fewer exist), equal creation times ordered by insertion, and the
\* version it inserted is among them.
C16_NewestKRetained ==
    [][\A p \in Procs :
          LeavesSnapshot(p) =>
              /\ {v \in versions' : v.layoutId = oid[p]} =
                   NewestK({v \in versions : v.layoutId = oid[p]})
              /\ \E v \in versions' : v.id = h[p].vid]_vars

\* the version the update of slot p inserted, if it is retained
Snapshot(p) == {v \in versions : v.id = h[p].vid}

\* C17 as stated: with requests executed one at a time, the version an update
\* writes holds the layout's content from before the update and the reason
\* the caller supplied ("manual_update" when the body has no reason), and
\* the layout afterwards holds the requested content.
C17_UpdateSnapshot ==
    \A p \in Procs :
        /\ (req[p].op = "update" /\ pc[p] = "snap_find")
             => \E v \in Snapshot(p) :
                    /\ v.layoutId = oid[p]
                    /\ v.innerHTML = h[p].pre.innerHTML
                    /\ v.reason = req[p].reason
        /\ Succeeded(p, "update") => layouts[oid[p]].innerHTML = req[p].innerHTML

\* C17 amended: as C17, the reason being "manual_update" also when the caller
\* supplied an empty reason.
C17_UpdateSnapshotAmended ==
    \A p \in Procs :
        /\ (req[p].op = "update" /\ pc[p] = "snap_find")
             => \E v \in Snapshot(p) :
                    /\ v.layoutId = oid[p]
                    /\ v.innerHTML = h[p].pre.innerHTML
                    /\ v.reason = IF req[p].reason = "" THEN "manual_update" ELSE req[p].reason
        /\ Succeeded(p, "update") => layouts[oid[p]].innerHTML = req[p].innerHTML

\* an update with reason "ai_edit" that changed the content: its version holds
\* the old content and that reason
C17_Witness ==
    \E p \in Procs :
        /\ Succeeded(p, "update")
        /\ req[p].reason = "ai_edit"
        /\ req[p].innerHTML # h[p].pre.innerHTML
        /\ \E v \in Snapshot(p) : v.innerHTML = h[p].pre.innerHTML /\ v.reason = "ai_edit"

\* slot p completes the delete of its snapshot call
Prunes(p) == pc[p] = "snap_delete" /\ pc'[p] # pc[p]

\* C18: a version that exists is never changed, and it ceases to exist only
\* in the pruning step of a snapshot call for its own layout.
C18_VersionImmutable ==
    [][\A v \in versions :
          \/ v \in versions'
          \/ /\ \A w \in versions' : w.id # v.id
             /\ \E p \in Procs : Prunes(p) /\ oid[p] = v.layoutId]_vars

\* a restore has answered: the version it restored is still there as it was
\* read, and a version of the initial store has been pruned
C18_Witness ==
    \E p \in Procs :
        /\ Succeeded(p, "restore")
        /\ version[p] \in versions
        /\ layouts[oid[p]].innerHTML = version[p].innerHTML
        /\ StoredVersions \ versions # {}

\* C19: when two completed updates of the same layout both read the same
\* content X and the one that overwrote first wrote a content other than X and
\* than the last one's, that content is neither in the layout nor in the
\* version either update wrote.
C19_LostUpdate ==
    \A l \in DOMAIN layouts :
        BothUpdated(l) =>
            LET n == Len(log[l])
                first == log[l][n - 1].innerHTML
            IN  (/\ current["p1"].innerHTML = current["p2"].innerHTML
                 /\ first # current["p1"].innerHTML
                 /\ first # log[l][n].innerHTML)
                => /\ layouts[l].innerHTML # first
                   /\ \A p \in Procs : \A v \in Snapshot(p) : v.innerHTML # first

\* the interleaving: both updates read and snapshot "a", "b" is overwritten
\* by "a", and no retained version of the layout holds "b"
C19_Witness ==
    /\ BothUpdated(1)
    /\ \A p \in Procs : current[p].innerHTML = "a" /\ Snapshot(p) # {}
    /\ \A p \in Procs : \A v \in Snapshot(p) : v.innerHTML = "a"
    /\ log[1][Len(log[1]) - 1].innerHTML = "b" /\ log[1][Len(log[1])].innerHTML = "a"
    /\ layouts[1].innerHTML = "a"
    /\ \A v \in versions : v.layoutId = 1 => v.innerHTML # "b"

\* C20: a step of a create, update or restore addressed to layout L changes
\* no other layout's content or theme and inserts or deletes no version of
\* another layout, under any interleaving.
C20_Isolation ==
    [][\A p \in Procs :
          pc'[p] # pc[p] =>
              \A l \in (DOMAIN layouts \cup {v.layoutId : v \in versions \cup versions'}) \ {oid'[p]} :
                  /\ l \in DOMAIN layouts => (l \in DOMAIN layouts' /\ layouts'[l] = layouts[l])
                  /\ {v \in versions' : v.layoutId = l} = {v \in versions : v.layoutId = l}]_vars

\* an update has changed the second layout while a snapshot call for the
\* first is about to prune: the first layout is as it was
C20_Witness ==
    \E p, q \in Procs :
        /\ Succeeded(p, "update") /\ oid[p] = 2 /\ layouts[2].innerHTML = "b"
        /\ pc[q] = "snap_delete" /\ oid[q] = 1
        /\ layouts[1] = StoredLayouts[1]

====
